---- MODULE Spec2Model ----
(***************************************************************************)
(* Keyframe track (Parameter<number> / NumberParameter) of the ComposiFX   *)
(* core: addKeyframe, clearKeyframes, animate, valueAt, interpolate, lerp  *)
(* and clamp.                                                              *)
(*                                                                         *)
(* An easing of "none" is a keyframe without an easing field.             *)
(* Times are integer multiples of one time quantum (the quantum is a free  *)
(* unit: valueAt only compares times and divides a time difference by a    *)
(* time difference), so keyframes (0, 0), (2, 100) queried at 1 stand for  *)
(* every pair of keyframes queried at its midpoint.  Numbers are exact     *)
(* rationals <<n, d>> with d > 0 in lowest terms; <<0,0>>, <<1,0>> and     *)
(* <<-1,0>> stand for the IEEE values NaN, +Infinity and -Infinity that a  *)
(* division by zero produces.  Array.prototype.sort is the stable sort     *)
(* that ECMAScript 2019 requires.                                          *)
(***************************************************************************)
EXTENDS Integers, Sequences, FiniteSets, TLC

VARIABLES keyframes, defaultValue, min, max, ret, addedAt

vars == <<keyframes, defaultValue, min, max, ret, addedAt>>

\* a Layer and the outcome of the most recent call on it
VARIABLES layer, got, lastUpdate

layerVars == <<layer, got, lastUpdate>>

\* an Effect and the outcome of the most recent call on it or on the renderer
VARIABLES effect, outcome

effectVars == <<effect, outcome>>

\* the outcome of new Composition(options)
VARIABLES composition

compVars == <<composition>>

\* one call of an easing function
VARIABLES easingCall

easingVars == <<easingCall>>

\* the source texture's alpha channel and the distance-field seed buffer
VARIABLES source, sdf

sdfVars == <<source, sdf>>

\* one fragment of the fill pass: its inputs and the colour it writes
VARIABLES fill, fragColor

fillVars == <<fill, fragColor>>

\* a Composition under playback with its layers, the animation-frame
\* callbacks the browser holds, and the most recent call
VARIABLES timeline, pending, last

timelineVars == <<timeline, pending, last>>

\* a TextureManager: its cache and pool, the GL textures created and the
\* Math.random() values drawn, and the most recent call
VARIABLES textureCache, texturePool, made, returned

textureVars == <<textureCache, texturePool, made, returned>>

\* a specification of one component leaves the other components unbuilt
Unbuilt == <<>>

LayerUnbuilt == layer = Unbuilt /\ got = Unbuilt /\ lastUpdate = 0

EffectUnbuilt == effect = Unbuilt /\ outcome = Unbuilt

CompositionUnbuilt == composition = Unbuilt

EasingUnbuilt == easingCall = Unbuilt

SdfUnbuilt == source = Unbuilt /\ sdf = Unbuilt

FillUnbuilt == fill = Unbuilt /\ fragColor = Unbuilt

TimelineUnbuilt == timeline = Unbuilt /\ pending = {} /\ last = Unbuilt

TexturesUnbuilt ==
  /\ textureCache = {}
  /\ texturePool = <<>>
  /\ made = Unbuilt
  /\ returned = Unbuilt

exceptTrack ==
  <<layerVars, effectVars, compVars, easingVars, sdfVars, fillVars,
    timelineVars, textureVars>>

\* ---------------------------------------------------------------- bounds
\* addKeyframe is not taken on a track that holds MaxKeyframes keyframes
MaxKeyframes == 4

\* an optional number is <<>> (undefined) or <<n>>
Undefined == <<>>

Some(n) == <<n>>

\* keyframe times, and query times before, at, between and after them
Times == { 0, 2, 4 }
QueryTimes == (0 - 1)..5

\* (value, easing) pairs a keyframe is drawn from
Shapes ==
  { <<0, "linear">>, <<100, "none">>, <<100, "easeInQuad">> }

Keyframe(t, s) == [time |-> t, value |-> s[1], easing |-> s[2]]

Keyframes == { Keyframe(t, s) : t \in Times, s \in Shapes }

\* keyframe lists handed to animate(): none, one or two keyframes, in any
\* time order
AnimateKeyframes ==
  { Keyframe(0, <<0, "linear">>), Keyframe(2, <<0, "linear">>),
    Keyframe(2, <<100, "easeInQuad">>) }

AnimateInputs ==
  UNION { [1..n -> AnimateKeyframes] : n \in 0..2 }

\* constructor arguments (defaultValue, min, max)
Constructions ==
  { <<1, Some(0), Some(1)>>, <<5, Some(0), Undefined>> }

ClampInputs == { <<0 - 1, 1>>, <<1, 2>>, <<100, 1>> }

\* ------------------------------------------------- IEEE-like rationals
Abs(x) == IF x < 0 THEN 0 - x ELSE x

Sign(x) == IF x < 0 THEN 0 - 1 ELSE IF x > 0 THEN 1 ELSE 0

RECURSIVE GCD(_, _)
GCD(a, b) == IF b = 0 THEN a ELSE GCD(b, a % b)

NaN == <<0, 0>>

Num(n) == <<n, 1>>

IsFinite(x) == x[2] # 0

\* n / d as JavaScript evaluates it: 0/0 is NaN, x/0 is +-Infinity
Div(n, d) ==
  IF d = 0 THEN <<Sign(n), 0>>
  ELSE LET g == GCD(Abs(n), Abs(d))
       IN <<Sign(d) * (n \div g), Abs(d) \div g>>

Mul(a, b) ==
  IF IsFinite(a) /\ IsFinite(b) THEN Div(a[1] * b[1], a[2] * b[2])
  ELSE <<Sign(a[1]) * Sign(b[1]), 0>>

Add(a, b) ==
  IF IsFinite(a) /\ IsFinite(b) THEN Div(a[1] * b[2] + b[1] * a[2], a[2] * b[2])
  ELSE IF a = NaN \/ b = NaN THEN NaN
  ELSE IF IsFinite(a) THEN b
  ELSE IF IsFinite(b) THEN a
  ELSE IF a = b THEN a ELSE NaN

\* a <= b, false when either side is NaN
Leq(a, b) ==
  IF a = NaN \/ b = NaN THEN FALSE
  ELSE IF IsFinite(a) /\ IsFinite(b) THEN a[1] * b[2] <= b[1] * a[2]
  ELSE IF ~IsFinite(a) /\ ~IsFinite(b) THEN a[1] <= b[1]
  ELSE IF IsFinite(a) THEN b[1] > 0
  ELSE a[1] < 0

\* ------------------------------------------------------------ easing
linear(t) == t

easeInQuad(t) == Mul(t, t)

\* call of the easing function named fn
Ease(fn, t) == IF fn = "easeInQuad" THEN easeInQuad(t) ELSE linear(t)

\* ------------------------------------------------------------ Parameter
\* NumberParameter.lerp / Parameter.lerp on numbers: a + (b - a) * t
lerp_swapped(a, b, t) == Add(Num(b), Mul(Num(a - b), t))

lerp(a, b, t) == Add(Num(a), Mul(Num(b - a), t))

\* kf2.easing || easing.linear
EasingOf(kf) == IF kf.easing = "none" THEN "linear" ELSE kf.easing

\* the outcome also records which easing function was called, on which
\* progress, and the divisor of the division
interpolate_departure(kf1, kf2, time) ==
  LET duration == kf2.time - kf1.time
      progress == Div(time - kf1.time, duration)
      easingFn == EasingOf(kf1)
      easedProgress == Ease(easingFn, progress)
  IN [value |-> lerp(kf1.value, kf2.value, easedProgress),
      branch |-> "interpolate",
      easingFn |-> easingFn,
      progress |-> progress,
      duration |-> duration]

interpolate(kf1, kf2, time) ==
  LET duration == kf2.time - kf1.time
      progress == Div(time - kf1.time, duration)
      easingFn == EasingOf(kf2)
      easedProgress == Ease(easingFn, progress)
  IN [value |-> lerp(kf1.value, kf2.value, easedProgress),
      branch |-> "interpolate",
      easingFn |-> easingFn,
      progress |-> progress,
      duration |-> duration]

\* a return that calls neither interpolate nor an easing function
Plain(v, branch) ==
  [value |-> Num(v), branch |-> branch, easingFn |-> "-",
   progress |-> Num(0), duration |-> 1]

MinOf(S) == CHOOSE x \in S : \A y \in S : x <= y

MaxOf(S) == CHOOSE x \in S : \A y \in S : x >= y

\* time <= this.keyframes[0].time
BeforeFirst_strict(kfs, time) == time < kfs[1].time

BeforeFirst(kfs, time) == time <= kfs[1].time

\* time >= lastKeyframe.time
AfterLast_strict(kfs, time) == time > kfs[Len(kfs)].time

AfterLast(kfs, time) == time >= kfs[Len(kfs)].time

\* the indices i the loop's condition accepts for (kfs[i], kfs[i + 1])
Hits(kfs, time) ==
  { i \in 1..(Len(kfs) - 1) :
      time >= kfs[i].time /\ time <= kfs[i + 1].time }

\* the loop returns at the first index it accepts
Surrounding_last(kfs, time) == MaxOf(Hits(kfs, time))

Surrounding(kfs, time) == MinOf(Hits(kfs, time))

valueAt(kfs, dflt, time) ==
  IF Len(kfs) = 0 THEN Plain(dflt, "default")
  ELSE IF BeforeFirst(kfs, time) THEN Plain(kfs[1].value, "first")
  ELSE IF AfterLast(kfs, time) THEN Plain(kfs[Len(kfs)].value, "last")
  ELSE IF Hits(kfs, time) = {} THEN Plain(dflt, "fallthrough")
  ELSE interpolate(kfs[Surrounding(kfs, time)],
                   kfs[Surrounding(kfs, time) + 1], time)

\* Math.max(min, Math.min(max, value)) when both bounds are defined
clamp(value, lo, hi) ==
  IF lo = Undefined \/ hi = Undefined THEN value
  ELSE LET m == IF Leq(Num(hi[1]), value) THEN Num(hi[1]) ELSE value
       IN IF Leq(m, Num(lo[1])) THEN Num(lo[1]) ELSE m

\* Array.prototype.sort((a, b) => a.time - b.time): stable, ascending
Insert_beforeEquals(sorted, kf) ==
  LET k == Cardinality({ i \in 1..Len(sorted) : sorted[i].time < kf.time })
  IN SubSeq(sorted, 1, k) \o <<kf>> \o SubSeq(sorted, k + 1, Len(sorted))

Insert(sorted, kf) ==
  LET k == Cardinality({ i \in 1..Len(sorted) : sorted[i].time <= kf.time })
  IN SubSeq(sorted, 1, k) \o <<kf>> \o SubSeq(sorted, k + 1, Len(sorted))

RECURSIVE SortByTime(_)
SortByTime(s) ==
  IF s = <<>> THEN <<>>
  ELSE Insert(SortByTime(SubSeq(s, 1, Len(s) - 1)), s[Len(s)])

\* this.keyframes.push(keyframe); this.keyframes.sort(...)
Pushed_unsorted(kfs, kf) == Append(kfs, kf)

Pushed(kfs, kf) == SortByTime(Append(kfs, kf))

RECURSIVE PushAll(_, _)
PushAll(kfs, input) ==
  IF input = <<>> THEN kfs
  ELSE PushAll(Pushed(kfs, Head(input)), Tail(input))

\* per-time log of the keyframes added since the last clear, oldest first
NoLog == [t \in Times |-> <<>>]

Log(log, kf) == [log EXCEPT ![kf.time] = Append(@, kf)]

RECURSIVE LogAll(_, _)
LogAll(log, input) ==
  IF input = <<>> THEN log ELSE LogAll(Log(log, Head(input)), Tail(input))

\* outcome of the most recent call
Ret(op, arg, r) ==
  [op |-> op, arg |-> arg, value |-> r.value, branch |-> r.branch,
   easingFn |-> r.easingFn, progress |-> r.progress, duration |-> r.duration]

Void(op, arg) == Ret(op, arg, Plain(0, "-"))

\* ------------------------------------------------------------ actions
Init ==
  /\ keyframes = <<>>
  /\ \E c \in Constructions :
       /\ defaultValue = c[1]
       /\ min = c[2]
       /\ max = c[3]
  /\ ret = Void("new", 0)
  /\ addedAt = NoLog
  /\ LayerUnbuilt /\ EffectUnbuilt /\ CompositionUnbuilt
  /\ EasingUnbuilt /\ SdfUnbuilt
  /\ FillUnbuilt
  /\ TimelineUnbuilt
  /\ TexturesUnbuilt

addKeyframe(kf) ==
  /\ Len(keyframes) < MaxKeyframes
  /\ keyframes' = Pushed(keyframes, kf)
  /\ addedAt' = Log(addedAt, kf)
  /\ ret' = Void("addKeyframe", kf.time)
  /\ UNCHANGED <<defaultValue, min, max>>
  /\ UNCHANGED exceptTrack

clearKeyframes_resetDefault ==
  /\ keyframes' = <<>>
  /\ addedAt' = NoLog
  /\ ret' = Void("clearKeyframes", Len(keyframes))
  /\ defaultValue' = 0
  /\ UNCHANGED <<min, max>>
  /\ UNCHANGED exceptTrack

clearKeyframes ==
  /\ keyframes' = <<>>
  /\ addedAt' = NoLog
  /\ ret' = Void("clearKeyframes", Len(keyframes))
  /\ UNCHANGED <<defaultValue, min, max>>
  /\ UNCHANGED exceptTrack

animate(input) ==
  /\ keyframes' = PushAll(<<>>, input)
  /\ addedAt' = LogAll(NoLog, input)
  /\ ret' = Void("animate", Len(input))
  /\ UNCHANGED <<defaultValue, min, max>>
  /\ UNCHANGED exceptTrack

ValueAt_zeroWhenEmpty(time) ==
  /\ ret' = IF Len(keyframes) = 0
            THEN Ret("valueAt", time, Plain(0, "default"))
            ELSE Ret("valueAt", time, valueAt(keyframes, defaultValue, time))
  /\ UNCHANGED <<keyframes, defaultValue, min, max, addedAt>>
  /\ UNCHANGED exceptTrack

ValueAt_clamped(time) ==
  /\ ret' = [Ret("valueAt", time, valueAt(keyframes, defaultValue, time))
               EXCEPT !.value = clamp(@, min, max)]
  /\ UNCHANGED <<keyframes, defaultValue, min, max, addedAt>>
  /\ UNCHANGED exceptTrack

ValueAt(time) ==
  /\ ret' = Ret("valueAt", time, valueAt(keyframes, defaultValue, time))
  /\ UNCHANGED <<keyframes, defaultValue, min, max, addedAt>>
  /\ UNCHANGED exceptTrack

Clamp(value) ==
  /\ ret' = [Void("clamp", value) EXCEPT !.value = clamp(value, min, max)]
  /\ UNCHANGED <<keyframes, defaultValue, min, max, addedAt>>
  /\ UNCHANGED exceptTrack

Next ==
  \/ \E kf \in Keyframes : addKeyframe(kf)
  \/ clearKeyframes
  \/ \E input \in AnimateInputs : animate(input)
  \/ \E time \in QueryTimes : ValueAt(time)
  \/ \E value \in ClampInputs : Clamp(value)

Spec == Init /\ [][Next]_vars

\* ------------------------------------------------------------ properties
First == keyframes[1]

Final == keyframes[Len(keyframes)]

Queried == ret.op = "valueAt" /\ Len(keyframes) > 0

Inside == Queried /\ First.time < ret.arg /\ ret.arg < Final.time

NoEasingCalled == ret.easingFn = "-" /\ ret.branch # "interpolate"

Flanks(i, t) == keyframes[i].time <= t /\ t <= keyframes[i + 1].time

\* the first adjacent pair that flanks t
IsFlankingPair(i, t) ==
  /\ Flanks(i, t)
  /\ \A j \in 1..(i - 1) : ~Flanks(j, t)

WithEasing(kfs, i, e) == [kfs EXCEPT ![i].easing = e]

Easings == { "none", "linear", "easeInQuad" }

\* C1: for a query time strictly between the first and the last keyframe
\* time the result is lerp(kf1.value, kf2.value, kf2.easing(progress)) for
\* the flanking pair (kf1, kf2), and neither the easing of kf1 nor the
\* easing of the first keyframe of the track changes the result.
C1_ArrivalEasing ==
  Inside =>
    \E i \in 1..(Len(keyframes) - 1) :
      LET kf1 == keyframes[i]
          kf2 == keyframes[i + 1]
          progress == Div(ret.arg - kf1.time, kf2.time - kf1.time)
          eased == IF kf2.easing = "easeInQuad"
                   THEN Mul(progress, progress) ELSE progress
      IN /\ IsFlankingPair(i, ret.arg)
         /\ ret.value = Add(Num(kf1.value),
                            Mul(Num(kf2.value - kf1.value), eased))
         /\ \A e \in Easings :
              /\ valueAt(WithEasing(keyframes, i, e), defaultValue,
                         ret.arg).value = ret.value
              /\ valueAt(WithEasing(keyframes, 1, e), defaultValue,
                         ret.arg).value = ret.value

\* (0, 0, linear), (t, 100, easeInQuad) queried at t/2: 100 * easeInQuad(1/2)
C1_Witness ==
  /\ Inside
  /\ Len(keyframes) = 2
  /\ First = Keyframe(0, <<0, "linear">>)
  /\ Final.value = 100
  /\ Final.easing = "easeInQuad"
  /\ 2 * ret.arg = Final.time
  /\ ret.value = Num(25)

\* C2 as stated: t <= first.time returns first.value and t >= last.time
\* returns last.value, with no easing call and no interpolation.
C2_FlatBothSides ==
  Queried =>
    /\ ret.arg <= First.time =>
         (ret.value = Num(First.value) /\ NoEasingCalled)
    /\ ret.arg >= Final.time =>
         (ret.value = Num(Final.value) /\ NoEasingCalled)

\* C2 amended: t <= first.time returns first.value; t >= last.time returns
\* last.value when t > first.time; no easing call, no interpolation.
C2_FlatExtrapolation ==
  Queried =>
    /\ ret.arg <= First.time =>
         (ret.value = Num(First.value) /\ NoEasingCalled)
    /\ (ret.arg >= Final.time /\ ret.arg > First.time) =>
         (ret.value = Num(Final.value) /\ NoEasingCalled)

C2_Witness ==
  /\ Queried
  /\ First.time < Final.time
  /\ First.value # Final.value
  /\ ret.arg = Final.time
  /\ ret.value = Num(Final.value)

\* C3: a track with zero keyframes returns its default value at every time.
C3_EmptyReturnsDefault ==
  (ret.op = "valueAt" /\ keyframes = <<>>) =>
    (ret.value = Num(defaultValue) /\ NoEasingCalled)

C3_Witness ==
  /\ ret.op = "valueAt"
  /\ keyframes = <<>>
  /\ ret.arg = 1
  /\ defaultValue = 5
  /\ ret.value = Num(5)

\* C4: the keyframe sequence is sorted ascending (non-decreasing) by time.
C4_Sorted ==
  \A i \in 1..Len(keyframes) : \A j \in i..Len(keyframes) :
    keyframes[i].time <= keyframes[j].time

\* a keyframe was added for a time earlier than the latest keyframe
C4_Witness ==
  /\ ret.op = "addKeyframe"
  /\ Len(keyframes) >= 3
  /\ ret.arg < Final.time
  /\ First.time < Final.time

\* several keyframes were added at the queried time T
DuplicateQuery(T) ==
  /\ Queried
  /\ ret.arg = T
  /\ Len(addedAt[T]) >= 2

LastAdded(T) == addedAt[T][Len(addedAt[T])]

FirstAdded(T) == addedAt[T][1]

\* C5 as stated: when several keyframes share the time T, valueAt(T)
\* returns the value of the keyframe added last at T.
C5_LastInsertedWins ==
  \A T \in Times :
    DuplicateQuery(T) => ret.value = Num(LastAdded(T).value)

\* C5 amended: valueAt(T) returns the value of the keyframe added last at T
\* only when T is the last keyframe time and later than the first keyframe
\* time; when T is the first keyframe time it returns the value of the
\* keyframe added first at T, and when T is an interior keyframe time the
\* keyframe added first at T is the arrival keyframe, reached at progress 1.
C5_DuplicateTimes ==
  \A T \in Times :
    DuplicateQuery(T) =>
      /\ T = First.time => ret.value = Num(FirstAdded(T).value)
      /\ (T = Final.time /\ T > First.time) =>
           ret.value = Num(LastAdded(T).value)
      /\ (First.time < T /\ T < Final.time) =>
           /\ ret.branch = "interpolate"
           /\ ret.progress = Num(1)
           /\ ret.easingFn = EasingOf(FirstAdded(T))
           /\ ret.value = Num(FirstAdded(T).value)

\* two different values added at an interior time, queried at that time
C5_Witness ==
  \E T \in Times :
    /\ DuplicateQuery(T)
    /\ First.time < T
    /\ T < Final.time
    /\ FirstAdded(T).value # LastAdded(T).value
    /\ ret.value = Num(FirstAdded(T).value)

\* C6: the division (time - kf1.time) / (kf2.time - kf1.time) is never
\* evaluated with kf2.time = kf1.time, and valueAt never returns NaN or an
\* infinity, duplicate keyframe times included.
C6_NoZeroInterval ==
  ret.op = "valueAt" =>
    /\ IsFinite(ret.value)
    /\ IsFinite(ret.progress)
    /\ ret.branch = "interpolate" => ret.duration > 0

\* a query at a duplicated interior keyframe time that interpolates
C6_Witness ==
  /\ Inside
  /\ ret.branch = "interpolate"
  /\ \E i \in 1..(Len(keyframes) - 1) :
       /\ keyframes[i].time = ret.arg
       /\ keyframes[i + 1].time = ret.arg

\* C7: two keyframes (t0, v0), (t1, v1), t0 < t1, arrival easing linear or
\* absent: valueAt(t) = v0 + (v1 - v0) * (t - t0) / (t1 - t0), t0 < t < t1.
C7_LinearInterpolation ==
  (Inside /\ Len(keyframes) = 2 /\ Final.easing \in { "none", "linear" }) =>
    ret.value = Div(First.value * (Final.time - First.time)
                      + (Final.value - First.value) * (ret.arg - First.time),
                    Final.time - First.time)

\* keyframes (0, 0), (t, 100) queried at t/2 give 50
C7_Witness ==
  /\ Inside
  /\ Len(keyframes) = 2
  /\ First = Keyframe(0, <<0, "linear">>)
  /\ Final.value = 100
  /\ Final.easing = "none"
  /\ 2 * ret.arg = Final.time
  /\ ret.value = Num(50)

\* C8: clearKeyframes empties the keyframe sequence and leaves the default
\* value, min and max unchanged.
C8_ClearFrame ==
  [][ret'.op = "clearKeyframes" =>
       /\ keyframes' = <<>>
       /\ defaultValue' = defaultValue
       /\ min' = min
       /\ max' = max]_vars

\* a full track was cleared
C8_Witness ==
  /\ ret.op = "clearKeyframes"
  /\ ret.arg = MaxKeyframes
  /\ keyframes = <<>>
  /\ defaultValue = 1
  /\ min = Some(0)
  /\ max = Some(1)

\* C9: among keyframes with equal time the order in the sequence is the
\* order of insertion.
C9_StableOrder ==
  \A T \in Times :
    SelectSeq(keyframes, LAMBDA kf : kf.time = T) = addedAt[T]

\* a keyframe was added at a time that already had a different entry
C9_Witness ==
  /\ ret.op = "addKeyframe"
  /\ Len(addedAt[ret.arg]) >= 2
  /\ FirstAdded(ret.arg) # LastAdded(ret.arg)
  /\ Final.time > ret.arg

InRange(v) ==
  /\ min # Undefined
  /\ max # Undefined
  /\ Leq(Num(min[1]), v)
  /\ Leq(v, Num(max[1]))

\* C10: valueAt returns keyframe values and interpolated values as they
\* are, inside [min, max] or not; clamp(value) returns value unless both
\* bounds are defined, and then the nearest number of [min, max].
C10_OnlyClampClamps ==
  /\ Queried =>
       /\ ret.branch = "first" => ret.value = Num(First.value)
       /\ ret.branch = "last" => ret.value = Num(Final.value)
       /\ ret.branch = "interpolate" =>
            \E i \in 1..(Len(keyframes) - 1) :
              /\ Flanks(i, ret.arg)
              /\ ret.value =
                   Add(Num(keyframes[i].value),
                       Mul(Num(keyframes[i + 1].value - keyframes[i].value),
                           Ease(ret.easingFn, ret.progress)))
  /\ ret.op = "clamp" =>
       IF min = Undefined \/ max = Undefined THEN ret.value = ret.arg
       ELSE /\ InRange(ret.value)
            /\ InRange(ret.arg) => ret.value = ret.arg
            /\ Leq(ret.arg, Num(min[1])) => ret.value = Num(min[1])
            /\ Leq(Num(max[1]), ret.arg) => ret.value = Num(max[1])

\* an interpolated value outside [min, max] = [0, 1] is returned as it is
C10_Witness ==
  /\ Queried
  /\ min = Some(0)
  /\ max = Some(1)
  /\ ret.branch = "interpolate"
  /\ ~InRange(ret.value)


\* ================================================================= Layer
TrackUnbuilt ==
  /\ keyframes = <<>>
  /\ defaultValue = 0
  /\ min = Undefined
  /\ max = Undefined
  /\ ret = Void("new", 0)
  /\ addedAt = NoLog

exceptLayer ==
  <<vars, effectVars, compVars, easingVars, sdfVars, fillVars,
    timelineVars, textureVars>>

\* no track operation is taken on a layer whose tracks hold
\* MaxLayerKeyframes keyframes in all
MaxLayerKeyframes == 2

\* times handed to updateTime: at the first keyframe, between two, after all
UpdateTimes == { 0, 1, 3 }

LayerTimes == { 0, 2 }

NumberTracks == { "rotation", "opacity" }

Vector2Tracks == { "position", "scale" }

TrackNames == NumberTracks \cup Vector2Tracks

\* a Vector2 {x, y} is <<x, y>>
NumberShapes == { <<0, "linear">>, <<3, "none">> }

Vector2Shapes == { << <<0, 0>>, "none">>, << <<2, 4>>, "linear">> }

KeyframesOf(name) ==
  { Keyframe(t, s) :
      t \in LayerTimes,
      s \in IF name \in NumberTracks THEN NumberShapes ELSE Vector2Shapes }

TrackInputs(name) == UNION { [1..n -> KeyframesOf(name)] : n \in 0..2 }

\* new Layer(options): only the opacity option is varied
LayerOptions ==
  { [position |-> Undefined, scale |-> Undefined, rotation |-> Undefined,
     opacity |-> o] : o \in { Undefined, Some(0), Some(2) } }

Track(dflt, lo, hi) ==
  [keyframes |-> <<>>, defaultValue |-> dflt, min |-> lo, max |-> hi]

Layer(options) ==
  [position |-> Track(IF options.position = Undefined THEN <<0, 0>>
                      ELSE options.position[1], Undefined, Undefined),
   scale |-> Track(IF options.scale = Undefined THEN <<1, 1>>
                   ELSE options.scale[1], Undefined, Undefined),
   rotation |-> Track(IF options.rotation = Undefined THEN 0
                      ELSE options.rotation[1], Undefined, Undefined),
   opacity |-> Track(IF options.opacity # Undefined THEN options.opacity[1]
                     ELSE 1, Some(0), Some(1)),
   currentTime |-> 0]

\* Parameter<Vector2>.valueAt: the steps of valueAt with the component-wise
\* lerp of Vector2Parameter, that is valueAt on each component
Component(kfs, i) ==
  [k \in 1..Len(kfs) |-> [kfs[k] EXCEPT !.value = @[i]]]

valueAt2(kfs, dflt, time) ==
  << valueAt(Component(kfs, 1), dflt[1], time).value,
     valueAt(Component(kfs, 2), dflt[2], time).value >>

TrackValueAt(name, track, time) ==
  IF name \in NumberTracks
  THEN valueAt(track.keyframes, track.defaultValue, time).value
  ELSE valueAt2(track.keyframes, track.defaultValue, time)

HeldKeyframes == 
  Len(layer.position.keyframes) + Len(layer.scale.keyframes)
    + Len(layer.rotation.keyframes) + Len(layer.opacity.keyframes)

Got(op, value) == [op |-> op, value |-> value]

InitLayer ==
  /\ \E options \in LayerOptions : layer = Layer(options)
  /\ got = Got("new", 0)
  /\ lastUpdate = 0
  /\ TrackUnbuilt /\ EffectUnbuilt /\ CompositionUnbuilt
  /\ EasingUnbuilt /\ SdfUnbuilt
  /\ FillUnbuilt
  /\ TimelineUnbuilt
  /\ TexturesUnbuilt

updateTime_ignored(time) ==
  /\ got' = Got("updateTime", time)
  /\ lastUpdate' = time
  /\ UNCHANGED layer
  /\ UNCHANGED exceptLayer

updateTime(time) ==
  /\ layer' = [layer EXCEPT !.currentTime = time]
  /\ got' = Got("updateTime", time)
  /\ lastUpdate' = time
  /\ UNCHANGED exceptLayer

\* layer.<name>.addKeyframe(kf)
trackAddKeyframe(name, kf) ==
  /\ HeldKeyframes < MaxLayerKeyframes
  /\ layer' = [layer EXCEPT ![name].keyframes = Pushed(@, kf)]
  /\ got' = Got("addKeyframe", name)
  /\ UNCHANGED lastUpdate
  /\ UNCHANGED exceptLayer

\* layer.<name>.clearKeyframes()
trackClearKeyframes(name) ==
  /\ layer' = [layer EXCEPT ![name].keyframes = <<>>]
  /\ got' = Got("clearKeyframes", name)
  /\ UNCHANGED lastUpdate
  /\ UNCHANGED exceptLayer

\* layer.<name>.animate(input)
trackAnimate(name, input) ==
  /\ HeldKeyframes - Len(layer[name].keyframes) + Len(input)
       <= MaxLayerKeyframes
  /\ layer' = [layer EXCEPT ![name].keyframes = PushAll(<<>>, input)]
  /\ got' = Got("animate", name)
  /\ UNCHANGED lastUpdate
  /\ UNCHANGED exceptLayer

Getter(op, name) ==
  /\ got' = Got(op, TrackValueAt(name, layer[name], layer.currentTime))
  /\ UNCHANGED <<layer, lastUpdate>>
  /\ UNCHANGED exceptLayer

getPosition == Getter("getPosition", "position")

getScale == Getter("getScale", "scale")

getRotation == Getter("getRotation", "rotation")

getOpacity == Getter("getOpacity", "opacity")

NextLayer ==
  \/ \E time \in UpdateTimes : updateTime(time)
  \/ \E name \in TrackNames : \E kf \in KeyframesOf(name) :
       trackAddKeyframe(name, kf)
  \/ \E name \in TrackNames : trackClearKeyframes(name)
  \/ \E name \in TrackNames : \E input \in TrackInputs(name) :
       trackAnimate(name, input)
  \/ getPosition
  \/ getScale
  \/ getRotation
  \/ getOpacity

SpecLayer == InitLayer /\ [][NextLayer]_layerVars

\* C11: whatever opacity the constructor was given, whatever keyframes the
\* opacity track holds and whatever time updateTime was given, getOpacity()
\* returns a value within [0, 1].
C11_OpacityClamped ==
  got.op = "getOpacity" => Leq(Num(0), got.value) /\ Leq(got.value, Num(1))

\* C12: a getter returns its track's valueAt, evaluated on the keyframes the
\* track holds now at the time of the most recent updateTime (0 before the
\* first one): nothing is cached between calls.
C12_RecomputedOnQuery ==
  /\ got.op = "getPosition" =>
       got.value = TrackValueAt("position", layer.position, lastUpdate)
  /\ got.op = "getScale" =>
       got.value = TrackValueAt("scale", layer.scale, lastUpdate)
  /\ got.op = "getRotation" =>
       got.value = TrackValueAt("rotation", layer.rotation, lastUpdate)
  /\ got.op = "getOpacity" =>
       got.value = TrackValueAt("opacity", layer.opacity, lastUpdate)

\* getRotation() after updateTime(1) on a rotation track animated from
\* (0, 0) to (2, 3): an interpolated value, neither default nor keyframe
C12_Witness ==
  /\ got.op = "getRotation"
  /\ lastUpdate = 1
  /\ Len(layer.rotation.keyframes) = 2
  /\ got.value = <<3, 2>>

\* ================================================= BaseEffect, FluidFill
exceptEffect ==
  <<vars, layerVars, compVars, easingVars, sdfVars, fillVars, timelineVars,
    textureVars>>

\* times of a RenderContext
ContextTimes == { 0, 1, 3 }

\* parameter names a caller asks for; no effect defines "radius"
RequestedNames == { "progress", "speed", "radius" }

\* new FluidFill(options): only the progress option is varied
FluidFillOptions ==
  { [progress |-> p, speed |-> Undefined] : p \in { Undefined, Some(1), Some(5) } }

\* speed: NumberParameter(options.speed ?? 1.0, 0.1, 10), 0.1 being <<1, 10>>
FluidFill(options) ==
  [name |-> "FluidFill",
   class |-> "FluidFill",
   parameters |->
     [n \in { "progress", "speed" } |->
        IF n = "progress"
        THEN Track(IF options.progress = Undefined THEN 0
                   ELSE options.progress[1], Some(0), Some(1))
        ELSE Track(IF options.speed = Undefined THEN 1
                   ELSE options.speed[1], Some(<<1, 10>>), Some(10))]]

\* a subclass of BaseEffect that calls super(name) and defines no parameter
BareEffect(name) ==
  [name |-> name, class |-> "BaseEffect", parameters |-> <<>>]

Effects ==
  { FluidFill(options) : options \in FluidFillOptions }
    \cup { BareEffect("FluidFill") }

\* keyframes handed to BaseEffect.animate: { time, value } without easing
EffectKeyframes == { Keyframe(t, <<v, "none">>) : t \in { 0, 2 }, v \in { 0, 3 } }

EffectInputs == UNION { [1..n -> EffectKeyframes] : n \in 0..2 }

\* this.parameters[name]
Lookup(parameters, name) ==
  IF name \in DOMAIN parameters THEN Some(parameters[name]) ELSE Undefined

Outcome(op, arg, kind, value) ==
  [op |-> op, arg |-> arg, kind |-> kind, value |-> value]

Thrown(op, arg) == Outcome(op, arg, "error", NaN)

Returned(op, arg, value) == Outcome(op, arg, "value", value)

ParamValueAt(param, time) ==
  valueAt(param.keyframes, param.defaultValue, time).value

InitEffect ==
  /\ effect \in Effects
  /\ outcome = Outcome("new", "-", "void", NaN)
  /\ TrackUnbuilt /\ LayerUnbuilt /\ CompositionUnbuilt
  /\ EasingUnbuilt /\ SdfUnbuilt
  /\ FillUnbuilt
  /\ TimelineUnbuilt
  /\ TexturesUnbuilt

\* BaseEffect.getParameterValue(name, time)
getParameterValue(name, time) ==
  /\ outcome' =
       IF Lookup(effect.parameters, name) = Undefined
       THEN Thrown("getParameterValue", name)
       ELSE Returned("getParameterValue", name,
                     ParamValueAt(effect.parameters[name], time))
  /\ UNCHANGED effect
  /\ UNCHANGED exceptEffect

\* BaseEffect.animate(parameterName, keyframes)
effectAnimate(parameterName, input) ==
  /\ IF Lookup(effect.parameters, parameterName) = Undefined
     THEN /\ outcome' = Thrown("animate", parameterName)
          /\ UNCHANGED effect
     ELSE /\ effect' = [effect EXCEPT !.parameters[parameterName].keyframes =
                          PushAll(<<>>, input)]
          /\ outcome' = Outcome("animate", parameterName, "void", NaN)
  /\ UNCHANGED exceptEffect

\* FluidFill.apply(input, context): reads progress, then speed
apply(time) ==
  /\ effect.class = "FluidFill"
  /\ outcome' =
       IF Lookup(effect.parameters, "progress") = Undefined
       THEN Thrown("apply", "progress")
       ELSE IF Lookup(effect.parameters, "speed") = Undefined
       THEN Thrown("apply", "speed")
       ELSE Returned("apply", "progress",
                     ParamValueAt(effect.parameters["progress"], time))
  /\ UNCHANGED effect
  /\ UNCHANGED exceptEffect

\* EffectRenderer.applyEffect -> applyFluidFill(effect, input, context):
\* outcome.value is the number handed to uniform1f(u_progress, ...)
applyFluidFill(time) ==
  /\ effect.name = "FluidFill"
  /\ outcome' =
       IF Lookup(effect.parameters, "progress") = Undefined
       THEN Returned("applyFluidFill", "progress", Num(0))
       ELSE Returned("applyFluidFill", "progress",
                     ParamValueAt(effect.parameters["progress"], time))
  /\ UNCHANGED effect
  /\ UNCHANGED exceptEffect

NextEffect ==
  \/ \E name \in RequestedNames : \E time \in ContextTimes :
       getParameterValue(name, time)
  \/ \E name \in RequestedNames : \E input \in EffectInputs :
       effectAnimate(name, input)
  \/ \E time \in ContextTimes : apply(time)
  \/ \E time \in ContextTimes : applyFluidFill(time)

SpecEffect == InitEffect /\ [][NextEffect]_effectVars

Lookups == { "getParameterValue", "animate", "apply", "applyFluidFill" }

\* C13: a lookup of a parameter name the effect does not define ends in an
\* error, in getParameterValue, in animate (which then changes no keyframe)
\* and in the renderer's lookup of "progress" for a FluidFill effect; no
\* lookup of an undefined name yields a value.
C13_UndefinedNameFailsLoudly ==
  [][ (outcome'.op \in Lookups /\ outcome'.arg \notin DOMAIN effect.parameters)
        => (outcome'.kind = "error" /\ effect' = effect) ]_effectVars

\* C14: the progress that FluidFill.apply reads and the progress the
\* renderer hands to u_progress lie within [0, 1], for every progress
\* option, every progress keyframes and every query time.
C14_ProgressClamped ==
  (outcome.op \in { "apply", "applyFluidFill" } /\ outcome.kind = "value")
    => Leq(Num(0), outcome.value) /\ Leq(outcome.value, Num(1))

\* =========================================================== Composition
exceptComposition ==
  <<vars, layerVars, effectVars, easingVars, sdfVars, fillVars,
    timelineVars, textureVars>>

Durations == { 0 - 5, 0 - 1, 0, 1, 10 }

FrameRates == { Undefined, Some(0), Some(30) }

Sizes == { 0, 640 }

Black == [r |-> 0, g |-> 0, b |-> 0, a |-> 255]

CompositionOptions ==
  { [width |-> w, height |-> h, duration |-> d, frameRate |-> f,
     backgroundColor |-> Undefined] :
      w \in Sizes, h \in Sizes, d \in Durations, f \in FrameRates }

\* a || b on an optional number: undefined and 0 are falsy
OrElse(a, b) == IF a = Undefined \/ a = Some(0) THEN b ELSE a[1]

\* the object new Composition(options) returns; the constructor has no throw
Composition(options) ==
  [kind |-> "value",
   width |-> options.width,
   height |-> options.height,
   duration |-> options.duration,
   frameRate |-> OrElse(options.frameRate, 60),
   backgroundColor |-> IF options.backgroundColor = Undefined THEN Black
                       ELSE options.backgroundColor[1],
   layers |-> <<>>,
   currentTime |-> 0,
   playing |-> FALSE,
   loop |-> FALSE]

InitComposition ==
  /\ \E options \in CompositionOptions :
       composition = [options |-> options, result |-> Unbuilt]
  /\ TrackUnbuilt /\ LayerUnbuilt /\ EffectUnbuilt
  /\ EasingUnbuilt /\ SdfUnbuilt
  /\ FillUnbuilt
  /\ TimelineUnbuilt
  /\ TexturesUnbuilt

\* new Composition(options)
construct ==
  /\ composition.result = Unbuilt
  /\ composition' = [composition EXCEPT !.result = Composition(composition.options)]
  /\ UNCHANGED exceptComposition

NextComposition == construct

SpecComposition == InitComposition /\ [][NextComposition]_compVars

\* C15: new Composition(options) with a duration of zero or less raises an
\* error; it does not return a composition.
C15_NonPositiveDurationRejected ==
  (composition.result # Unbuilt /\ composition.options.duration <= 0)
    => composition.result.kind = "error"

\* =============================================== IEEE 754 binary64 numbers
\* A JavaScript number is <<s, m, e>>: sign s (1 or -1), magnitude m, a
\* natural number written in base Base, least significant limb first, and
\* exponent e; its value is s * m * 2^e.  In canonical form m is odd and has
\* at most Precision bits.  Zero is <<1, <<>>, 0>>: -0 and 0 are one value,
\* since -0 == 0 in JavaScript.  The easing functions stay far from the
\* exponent limits, so no overflow or subnormal arises.
Precision == 53

LimbBits == 13

Base == 8192

RECURSIVE Trim(_)
Trim(m) ==
  IF m # <<>> /\ m[Len(m)] = 0 THEN Trim(SubSeq(m, 1, Len(m) - 1)) ELSE m

Limb(m, i) == IF i \in 1..Len(m) THEN m[i] ELSE 0

Zeros(k) == [i \in 1..k |-> 0]

\* limbs of a sequence of digits of any size, negative ones included
RECURSIVE Carried(_, _)
Carried(digits, carry) ==
  IF digits = <<>>
  THEN (IF carry = 0 THEN <<>>
        ELSE <<carry % Base>> \o Carried(<<>>, carry \div Base))
  ELSE <<(Head(digits) + carry) % Base>>
         \o Carried(Tail(digits), (Head(digits) + carry) \div Base)

Limbs(n) == Carried(<<n>>, 0)

AddLimbs(a, b) ==
  Carried([i \in 1..(IF Len(a) < Len(b) THEN Len(b) ELSE Len(a)) |->
             Limb(a, i) + Limb(b, i)], 0)

\* a - b for a >= b
SubLimbs(a, b) == Trim(Carried([i \in 1..Len(a) |-> a[i] - Limb(b, i)], 0))

\* a < b, both without a high zero limb
RECURSIVE LessLimbs(_, _)
LessLimbs(a, b) ==
  IF Len(a) # Len(b) THEN Len(a) < Len(b)
  ELSE IF a = <<>> THEN FALSE
  ELSE IF a[Len(a)] # b[Len(b)] THEN a[Len(a)] < b[Len(b)]
  ELSE LessLimbs(SubSeq(a, 1, Len(a) - 1), SubSeq(b, 1, Len(b) - 1))

RECURSIVE SumTo(_, _)
SumTo(f, n) == IF n = 0 THEN 0 ELSE f[n] + SumTo(f, n - 1)

MulLimbs(a, b) ==
  Trim(Carried([k \in 1..(Len(a) + Len(b)) |->
                  SumTo([i \in 1..Len(a) |-> a[i] * Limb(b, k - i + 1)],
                        Len(a))], 0))

\* <<quotient, remainder>> of n by a divisor d of one limb, from the top limb
RECURSIVE DivLimbs(_, _, _)
DivLimbs(n, d, r) ==
  IF n = <<>> THEN <<<<>>, r>>
  ELSE LET cur == r * Base + n[Len(n)]
           below == DivLimbs(SubSeq(n, 1, Len(n) - 1), d, cur % d)
       IN <<below[1] \o <<cur \div d>>, below[2]>>

ShiftLeft(m, k) ==
  LET q == k \div LimbBits
      j == k % LimbBits
  IN Trim(Zeros(q) \o
          [i \in 1..(Len(m) + 1) |->
             ((Limb(m, i) * 2^j) % Base) + ((Limb(m, i - 1) * 2^j) \div Base)])

ShiftRight(m, k) ==
  LET q == k \div LimbBits
      j == k % LimbBits
  IN Trim([i \in 1..(Len(m) - q) |->
             (m[i + q] \div 2^j)
               + ((Limb(m, i + q + 1) % 2^j) * 2^(LimbBits - j))])

RECURSIVE Width(_)
Width(n) == IF n = 0 THEN 0 ELSE 1 + Width(n \div 2)

\* number of bits of m, m without a high zero limb
BitLen(m) ==
  IF m = <<>> THEN 0 ELSE (Len(m) - 1) * LimbBits + Width(m[Len(m)])

\* bit i of m, bit 1 the lowest
Bit(m, i) ==
  (Limb(m, (i - 1) \div LimbBits + 1) \div 2^((i - 1) % LimbBits)) % 2

\* one of the k lowest bits of m is 1
LowBitsSet(m, k) == ShiftLeft(ShiftRight(m, k), k) # Trim(m)

RECURSIVE ZeroLimbs(_)
ZeroLimbs(m) == IF m # <<>> /\ Head(m) = 0 THEN 1 + ZeroLimbs(Tail(m)) ELSE 0

RECURSIVE Twos(_)
Twos(n) == IF n % 2 = 0 THEN 1 + Twos(n \div 2) ELSE 0

\* number of low zero bits of m > 0
LowZeros(m) == ZeroLimbs(m) * LimbBits + Twos(m[ZeroLimbs(m) + 1])

Zero == <<1, <<>>, 0>>

Canon(s, m, e) ==
  LET t == Trim(m)
  IN IF t = <<>> THEN Zero
     ELSE <<s, ShiftRight(t, LowZeros(t)), e + LowZeros(t)>>

\* round to nearest, ties to even; sticky says the exact magnitude lies
\* strictly between m and m + 1
Round(s, m, e, sticky) ==
  LET t == Trim(m)
      k == BitLen(t) - Precision
  IN IF k <= 0 THEN Canon(s, t, e)
     ELSE LET kept == ShiftRight(t, k)
              rest == sticky \/ LowBitsSet(t, k - 1)
              up == Bit(t, k) = 1 /\ (rest \/ kept[1] % 2 = 1)
          IN Canon(s, IF up THEN AddLimbs(kept, <<1>>) ELSE kept, e + k)

\* n * 2^e for a small integer n
Dbl(n, e) == Canon(IF n < 0 THEN 0 - 1 ELSE 1, Limbs(Abs(n)), e)

D(n) == Dbl(n, 0)

\* (hi * 2^26 + lo) * 2^e
Dbl2(hi, lo, e) == Canon(1, AddLimbs(ShiftLeft(Limbs(hi), 26), Limbs(lo)), e)

FNeg(x) == IF x = Zero THEN Zero ELSE <<0 - x[1], x[2], x[3]>>

\* the exact sum, not rounded
ExactSum(x, y) ==
  LET e == IF x[3] < y[3] THEN x[3] ELSE y[3]
      a == ShiftLeft(x[2], x[3] - e)
      b == ShiftLeft(y[2], y[3] - e)
  IN IF x[1] = y[1] THEN <<x[1], AddLimbs(a, b), e>>
     ELSE IF LessLimbs(a, b) THEN <<y[1], SubLimbs(b, a), e>>
     ELSE <<x[1], SubLimbs(a, b), e>>

FAdd(x, y) ==
  LET z == ExactSum(x, y) IN Round(z[1], z[2], z[3], FALSE)

FSub(x, y) == FAdd(x, FNeg(y))

FMul(x, y) == Round(x[1] * y[1], MulLimbs(x[2], y[2]), x[3] + y[3], FALSE)

\* x / y for a divisor whose odd magnitude has one limb (2, 2.75, 3 and 4.5
\* are the divisors of the easing functions); the quotient is carried to
\* more than Precision + 3 bits
FDiv(x, y) ==
  LET k == Precision + 3 + LimbBits
      qr == DivLimbs(ShiftLeft(x[2], k), y[2][1], 0)
  IN IF x = Zero THEN Zero
     ELSE Round(x[1] * y[1], qr[1], x[3] - y[3] - k, qr[2] # 0)

FLess(x, y) ==
  LET z == ExactSum(x, FNeg(y))
  IN Trim(z[2]) # <<>> /\ z[1] = 0 - 1

\* ======================================================= easing functions
exceptEasing ==
  <<vars, layerVars, effectVars, compVars, sdfVars, fillVars, timelineVars,
    textureVars>>

One == D(1)

Two == D(2)

Half == Dbl(1, 0 - 1)

\* Math.PI, and Math.PI / 2 (a halving is exact)
PI == Dbl2(13176794, 42501539, 0 - 48)

HalfPi == Dbl2(13176794, 42501539, 0 - 49)

\* Math.cos and Math.sin at the arguments the easing functions hand them
\* for t = 0 and t = 1.  Math.PI / 2 lies 6.1e-17 below pi / 2, so its
\* cosine is the number 6.123233995736766e-17, not 0.
CosHalfPi == Dbl2(74025356, 51665927, 0 - 106)

MathCos(x) ==
  CASE x = Zero -> One
    [] x = HalfPi -> CosHalfPi
    [] x = PI -> D(0 - 1)

MathSin(x) ==
  CASE x = Zero -> Zero
    [] x = HalfPi -> One

\* Math.sqrt at 0 and 1
MathSqrt(x) ==
  CASE x = Zero -> Zero
    [] x = One -> One

\* Math.pow(x, y) for y = 0, 2 and 3: the exact power, rounded once
MathPow(x, y) ==
  CASE y = Zero -> One
    [] y = D(2) -> Round(1, MulLimbs(x[2], x[2]), 2 * x[3], FALSE)
    [] y = D(3) -> Round(x[1], MulLimbs(MulLimbs(x[2], x[2]), x[2]),
                         3 * x[3], FALSE)

\* 1.70158 and 1.525
C1 == Dbl2(114191100, 54030689, 0 - 52)

C1525 == Dbl2(51170508, 53687091, 0 - 51)

\* easing[fn](t), each function as the source writes it.  --t decrements t
\* before the product reads it (u is the decremented t), and t -= c / d1 in
\* easeOutBounce writes t before the product reads it (t2, t3, t4).
easing(fn, t) ==
  LET u == FSub(t, One)
      c1 == C1
      c2 == FMul(c1, C1525)
      c3 == FAdd(c1, One)
      c4 == FDiv(FMul(Two, PI), D(3))
      c5 == FDiv(FMul(Two, PI), Dbl(9, 0 - 1))
      easeOutBounce(x) ==
        LET n1 == Dbl(121, 0 - 4)
            d1 == Dbl(11, 0 - 2)
            t2 == FSub(x, FDiv(Dbl(3, 0 - 1), d1))
            t3 == FSub(x, FDiv(Dbl(9, 0 - 2), d1))
            t4 == FSub(x, FDiv(Dbl(21, 0 - 3), d1))
        IN IF FLess(x, FDiv(One, d1)) THEN FMul(FMul(n1, x), x)
           ELSE IF FLess(x, FDiv(Two, d1))
           THEN FAdd(FMul(FMul(n1, t2), t2), Dbl(3, 0 - 2))
           ELSE IF FLess(x, FDiv(Dbl(5, 0 - 1), d1))
           THEN FAdd(FMul(FMul(n1, t3), t3), Dbl(15, 0 - 4))
           ELSE FAdd(FMul(FMul(n1, t4), t4), Dbl(63, 0 - 6))
  IN
  CASE fn = "linear" -> t
    [] fn = "easeInQuad" -> FMul(t, t)
    [] fn = "easeOutQuad" -> FMul(t, FSub(Two, t))
    [] fn = "easeInOutQuad" ->
         IF FLess(t, Half) THEN FMul(FMul(Two, t), t)
         ELSE FAdd(D(0 - 1), FMul(FSub(D(4), FMul(Two, t)), t))
    [] fn = "easeInCubic" -> FMul(FMul(t, t), t)
    [] fn = "easeOutCubic" -> FAdd(FMul(FMul(u, u), u), One)
    [] fn = "easeInOutCubic" ->
         IF FLess(t, Half) THEN FMul(FMul(FMul(D(4), t), t), t)
         ELSE FAdd(FMul(FMul(FSub(t, One), FSub(FMul(Two, t), Two)),
                        FSub(FMul(Two, t), Two)), One)
    [] fn = "easeInQuart" -> FMul(FMul(FMul(t, t), t), t)
    [] fn = "easeOutQuart" -> FSub(One, FMul(FMul(FMul(u, u), u), u))
    [] fn = "easeInOutQuart" ->
         IF FLess(t, Half) THEN FMul(FMul(FMul(FMul(D(8), t), t), t), t)
         ELSE FSub(One, FMul(FMul(FMul(FMul(D(8), u), u), u), u))
    [] fn = "easeInQuint" -> FMul(FMul(FMul(FMul(t, t), t), t), t)
    [] fn = "easeOutQuint" ->
         FAdd(One, FMul(FMul(FMul(FMul(u, u), u), u), u))
    [] fn = "easeInOutQuint" ->
         IF FLess(t, Half)
         THEN FMul(FMul(FMul(FMul(FMul(D(16), t), t), t), t), t)
         ELSE FAdd(One, FMul(FMul(FMul(FMul(FMul(D(16), u), u), u), u), u))
    [] fn = "easeInSine" -> FSub(One, MathCos(FDiv(FMul(t, PI), Two)))
    [] fn = "easeOutSine" -> MathSin(FDiv(FMul(t, PI), Two))
    [] fn = "easeInOutSine" ->
         FDiv(FNeg(FSub(MathCos(FMul(PI, t)), One)), Two)
    [] fn = "easeInExpo" ->
         IF t = Zero THEN Zero
         ELSE MathPow(Two, FSub(FMul(D(10), t), D(10)))
    [] fn = "easeOutExpo" ->
         IF t = One THEN One
         ELSE FSub(One, MathPow(Two, FMul(D(0 - 10), t)))
    [] fn = "easeInOutExpo" ->
         IF t = Zero THEN Zero
         ELSE IF t = One THEN One
         ELSE IF FLess(t, Half)
         THEN FDiv(MathPow(Two, FSub(FMul(D(20), t), D(10))), Two)
         ELSE FDiv(FSub(Two, MathPow(Two, FAdd(FMul(D(0 - 20), t), D(10)))),
                   Two)
    [] fn = "easeInCirc" -> FSub(One, MathSqrt(FSub(One, FMul(t, t))))
    [] fn = "easeOutCirc" -> MathSqrt(FSub(One, FMul(u, u)))
    [] fn = "easeInOutCirc" ->
         IF FLess(t, Half)
         THEN FDiv(FSub(One, MathSqrt(FSub(One, MathPow(FMul(Two, t), Two)))),
                   Two)
         ELSE FDiv(FAdd(MathSqrt(FSub(One,
                          MathPow(FAdd(FMul(D(0 - 2), t), Two), Two))), One),
                   Two)
    [] fn = "easeInBack" ->
         FSub(FMul(FMul(FMul(c3, t), t), t), FMul(FMul(c1, t), t))
    [] fn = "easeOutBack" ->
         FAdd(FAdd(One, FMul(c3, MathPow(FSub(t, One), D(3)))),
              FMul(c1, MathPow(FSub(t, One), Two)))
    [] fn = "easeInOutBack" ->
         IF FLess(t, Half)
         THEN FDiv(FMul(MathPow(FMul(Two, t), Two),
                        FSub(FMul(FMul(FAdd(c2, One), Two), t), c2)), Two)
         ELSE FDiv(FAdd(FMul(MathPow(FSub(FMul(Two, t), Two), Two),
                             FAdd(FMul(FAdd(c2, One),
                                       FSub(FMul(t, Two), Two)), c2)), Two),
                   Two)
    [] fn = "easeInElastic" ->
         IF t = Zero THEN Zero
         ELSE IF t = One THEN One
         ELSE FMul(FNeg(MathPow(Two, FSub(FMul(D(10), t), D(10)))),
                   MathSin(FMul(FSub(FMul(t, D(10)), Dbl(43, 0 - 2)), c4)))
    [] fn = "easeOutElastic" ->
         IF t = Zero THEN Zero
         ELSE IF t = One THEN One
         ELSE FAdd(FMul(MathPow(Two, FMul(D(0 - 10), t)),
                        MathSin(FMul(FSub(FMul(t, D(10)), Dbl(3, 0 - 2)),
                                     c4))), One)
    [] fn = "easeInOutElastic" ->
         IF t = Zero THEN Zero
         ELSE IF t = One THEN One
         ELSE IF FLess(t, Half)
         THEN FDiv(FNeg(FMul(MathPow(Two, FSub(FMul(D(20), t), D(10))),
                             MathSin(FMul(FSub(FMul(D(20), t),
                                               Dbl(89, 0 - 3)), c5)))), Two)
         ELSE FAdd(FDiv(FMul(MathPow(Two, FAdd(FMul(D(0 - 20), t), D(10))),
                             MathSin(FMul(FSub(FMul(D(20), t),
                                               Dbl(89, 0 - 3)), c5))), Two),
                   One)
    [] fn = "easeOutBounce" -> easeOutBounce(t)
    [] fn = "easeInBounce" -> FSub(One, easeOutBounce(FSub(One, t)))
    [] fn = "easeInOutBounce" ->
         IF FLess(t, Half)
         THEN FDiv(FSub(One, easeOutBounce(FSub(One, FMul(Two, t)))), Two)
         ELSE FDiv(FAdd(One, easeOutBounce(FSub(FMul(Two, t), One))), Two)

\* the functions built from + - * / and integer powers alone are also
\* called inside the interval; those that call Math.cos, Math.sin, Math.sqrt
\* or Math.pow(2, y) are called at t = 0 and t = 1
Tabulated ==
  { "easeInSine", "easeOutSine", "easeInOutSine",
    "easeInExpo", "easeOutExpo", "easeInOutExpo",
    "easeInCirc", "easeOutCirc", "easeInOutCirc",
    "easeInElastic", "easeOutElastic", "easeInOutElastic" }

Algebraic ==
  { "linear", "easeInQuad", "easeOutQuad", "easeInOutQuad",
    "easeInCubic", "easeOutCubic", "easeInOutCubic",
    "easeInQuart", "easeOutQuart", "easeInOutQuart",
    "easeInQuint", "easeOutQuint", "easeInOutQuint",
    "easeInBack", "easeOutBack", "easeInOutBack",
    "easeInBounce", "easeOutBounce", "easeInOutBounce" }

EasingNames == Algebraic \cup Tabulated

EasingInputs(fn) ==
  IF fn \in Tabulated THEN { Zero, One }
  ELSE { Dbl(k, 0 - 2) : k \in 0..4 }

InitEasing ==
  /\ \E fn \in EasingNames : \E t \in EasingInputs(fn) :
       easingCall = [fn |-> fn, t |-> t, result |-> Undefined]
  /\ TrackUnbuilt /\ LayerUnbuilt /\ EffectUnbuilt
  /\ CompositionUnbuilt /\ SdfUnbuilt
  /\ FillUnbuilt
  /\ TimelineUnbuilt
  /\ TexturesUnbuilt

callEasing ==
  /\ easingCall.result = Undefined
  /\ easingCall' =
       [easingCall EXCEPT !.result = Some(easing(easingCall.fn, easingCall.t))]
  /\ UNCHANGED exceptEasing

NextEasing == callEasing

SpecEasing == InitEasing /\ [][NextEasing]_easingVars

\* C16: every easing function f of the collection returns 0 at 0 and 1 at 1:
\* f(0) == 0 and f(1) == 1.
C16_EasingBoundaries ==
  easingCall.result # Undefined =>
    /\ easingCall.t = Zero => easingCall.result[1] = Zero
    /\ easingCall.t = One => easingCall.result[1] = One

\* ====================================== distance field: seed and jump passes
\* A texel is <<x, y>>, 0 <= x < Width, 0 <= y < Height; its texture
\* coordinate v_texCoord is ((x + 1/2) / Width, (y + 1/2) / Height), so
\* texels and texture coordinates of texel centres correspond one to one and
\* a stored seed coordinate is kept as the texel it is the centre of.  A
\* distance between two texture coordinates is kept exactly, as
\* <<0, q>> with q = (distance * Width * Height)^2; <<1, n>> is the number n.
exceptSdf ==
  <<vars, layerVars, effectVars, compVars, easingVars, fillVars,
    timelineVars, textureVars>>

TexWidth == 4

TexHeight == 3

\* no jump pass is rendered after MaxPasses jump passes
MaxPasses == 2

Texels == (0..(TexWidth - 1)) \X (0..(TexHeight - 1))

\* alpha and u_threshold in units of one alpha level
Alphas == { 0, 2 }

Thresholds == { 0, 2 }

\* u_stepSize of a jump pass, in texels
StepSizes == { 1, 2 }

Distance(p, q) ==
  <<0, (p[1] - q[1]) * (p[1] - q[1]) * TexHeight * TexHeight
         + (p[2] - q[2]) * (p[2] - q[2]) * TexWidth * TexWidth>>

\* floor of the square root
IntSqrt(k) == CHOOSE r \in 0..k : r * r <= k /\ k < (r + 1) * (r + 1)

\* floor of a distance
Floor(d) ==
  IF d[1] = 1 THEN d[2]
  ELSE IntSqrt(d[2] \div (TexWidth * TexWidth * TexHeight * TexHeight))

\* dist < minDist, dist a distance between two texture coordinates
DistLess_orEqual(dist, minDist) ==
  IF minDist[1] = 0 THEN dist[2] <= minDist[2] ELSE Floor(dist) < minDist[2]

DistLess(dist, minDist) ==
  IF minDist[1] = 0 THEN dist[2] < minDist[2] ELSE Floor(dist) < minDist[2]

\* fragColor = vec4(v_texCoord, 0.0, 1.0)
Seeded(p) == [seed |-> p, dist |-> <<0, 0>>, valid |-> TRUE]

\* fragColor = vec4(-1.0, -1.0, 999999.0, 0.0)
Unseeded ==
  [seed |-> <<0 - 1, 0 - 1>>, dist |-> <<1, 999999>>, valid |-> FALSE]

\* texColor.a > u_threshold
IsSeed_inclusive(alpha, threshold) == alpha >= threshold

IsSeed(alpha, threshold) == alpha > threshold

\* sdf-init main() for the fragment at texel p
InitPixel(src, p) ==
  IF IsSeed(src.alpha[p], src.threshold) THEN Seeded(p) ELSE Unseeded

\* the k-th (x, y) of the loops y = -1..1 (outer), x = -1..1 (inner)
Offset(k) == << ((k - 1) % 3) - 1, ((k - 1) \div 3) - 1 >>

\* the texel neighborUV = v_texCoord + offset * u_stepSize * u_texelSize
\* falls in; it is out of bounds exactly when neighborUV leaves [0, 1]
Neighbor(p, k, stepSize) ==
  << p[1] + Offset(k)[1] * stepSize, p[2] + Offset(k)[2] * stepSize >>

\* dist = distance(v_texCoord, neighbor.xy)
SeedDistance_stored(p, neighbor) == neighbor.dist

SeedDistance(p, neighbor) == Distance(p, neighbor.seed)

\* the loop body for the k-th neighbour and the ones after it
RECURSIVE Scan(_, _, _, _, _)
Scan(cells, p, stepSize, k, closest) ==
  IF k > 9 THEN closest
  ELSE LET n == Neighbor(p, k, stepSize)
       IN IF n \notin Texels THEN Scan(cells, p, stepSize, k + 1, closest)
          ELSE IF cells[n].valid
                  /\ DistLess(SeedDistance(p, cells[n]), closest.dist)
          THEN Scan(cells, p, stepSize, k + 1,
                    [seed |-> cells[n].seed,
                     dist |-> SeedDistance(p, cells[n]),
                     valid |-> TRUE])
          ELSE Scan(cells, p, stepSize, k + 1, closest)

\* sdf-jump main() for the fragment at texel p
JumpPixel(cells, p, stepSize) == Scan(cells, p, stepSize, 1, cells[p])

Sources ==
  { [alpha |-> a, threshold |-> t] : a \in [Texels -> Alphas], t \in Thresholds }

InitSdf ==
  /\ source \in Sources
  /\ sdf = Unbuilt
  /\ TrackUnbuilt /\ LayerUnbuilt /\ EffectUnbuilt
  /\ CompositionUnbuilt /\ EasingUnbuilt
  /\ FillUnbuilt
  /\ TimelineUnbuilt
  /\ TexturesUnbuilt

\* the seed pass: sdf-init rendered over the whole buffer
seedPass ==
  /\ sdf = Unbuilt
  /\ sdf' = [cells |-> [p \in Texels |-> InitPixel(source, p)], steps |-> <<>>]
  /\ UNCHANGED source
  /\ UNCHANGED exceptSdf

\* one jump pass: sdf-jump rendered over the whole buffer, reading the
\* previous buffer; steps lists the u_stepSize of the passes so far
jumpPass(stepSize) ==
  /\ sdf # Unbuilt
  /\ Len(sdf.steps) < MaxPasses
  /\ sdf' = [cells |-> [p \in Texels |-> JumpPixel(sdf.cells, p, stepSize)],
             steps |-> Append(sdf.steps, stepSize)]
  /\ UNCHANGED source
  /\ UNCHANGED exceptSdf

NextSdf ==
  \/ seedPass
  \/ \E stepSize \in StepSizes : jumpPass(stepSize)

SpecSdf == InitSdf /\ [][NextSdf]_sdfVars

\* ---- properties of the passes
Seeds == { p \in Texels : source.alpha[p] > source.threshold }

TrueDistance(p) ==
  CHOOSE d \in { Distance(p, q) : q \in Seeds } :
    \A q \in Seeds : ~(Distance(p, q)[2] < d[2])

\* C17: after the seed pass every pixel whose source alpha is strictly
\* greater than the threshold is valid, holds its own coordinate as seed
\* and distance 0; every other pixel is invalid with the sentinel distance.
C17_SeedPass ==
  (sdf # Unbuilt /\ sdf.steps = <<>>) =>
    \A p \in Texels :
      IF source.alpha[p] > source.threshold
      THEN /\ sdf.cells[p].valid
           /\ sdf.cells[p].seed = p
           /\ sdf.cells[p].dist = <<0, 0>>
      ELSE /\ ~sdf.cells[p].valid
           /\ sdf.cells[p].dist = <<1, 999999>>

\* a seeded buffer with a seed pixel and a pixel whose alpha equals the
\* threshold
C17_Witness ==
  /\ sdf # Unbuilt
  /\ sdf.steps = <<>>
  /\ \E p \in Texels : sdf.cells[p].valid
  /\ \E p \in Texels : source.alpha[p] = source.threshold

\* the passes so far were jump passes with steps N/2, N/4, ..., 1, N the
\* power of two covering the larger buffer dimension
Schedule == << 2, 1 >>

\* the distances a buffer cell can hold in its distance channel
StoredDistances == { <<0, 0>>, <<1, 999999>> }

\* C18: in a jump pass an invalid cell is never treated as closer than a
\* valid one, whatever distance it stores: a pixel whose own cell is
\* invalid and one of whose nine samples (offsets {-1,0,1} x {-1,0,1}
\* times the step) is in bounds and valid comes out valid.
C18_ValidityCheckedExplicitly ==
  sdf # Unbuilt =>
    \A p \in Texels, stepSize \in StepSizes, d \in StoredDistances :
      ( /\ ~sdf.cells[p].valid
        /\ \E k \in 1..9 :
             /\ Neighbor(p, k, stepSize) \in Texels
             /\ sdf.cells[Neighbor(p, k, stepSize)].valid )
      => JumpPixel([sdf.cells EXCEPT ![p].dist = d], p, stepSize).valid

\* with the seed pass's sentinel in every invalid cell, a jump pass makes
\* valid every pixel one of whose nine samples is in bounds and valid
ValidSampleGivesValidOutput ==
  [][ (sdf # Unbuilt /\ sdf' # sdf) =>
        \A p \in Texels :
          (\E k \in 1..9 :
             /\ Neighbor(p, k, sdf'.steps[Len(sdf'.steps)]) \in Texels
             /\ sdf.cells[Neighbor(p, k, sdf'.steps[Len(sdf'.steps)])].valid)
          => sdf'.cells[p].valid ]_sdfVars

\* C19: a valid pixel's stored seed is the coordinate of a pixel the seed
\* pass marked as a seed, and its stored distance is the Euclidean distance
\* in texture-coordinate space from the pixel to that seed.
C19_SeedIsRealAndDistanceMatches ==
  sdf # Unbuilt =>
    \A p \in Texels :
      sdf.cells[p].valid =>
        /\ sdf.cells[p].seed \in Seeds
        /\ sdf.cells[p].dist = Distance(p, sdf.cells[p].seed)

\* after two jump passes a pixel holds a seed that is neither itself nor
\* one of its eight adjacent texels
C19_Witness ==
  /\ sdf # Unbuilt
  /\ Len(sdf.steps) = 2
  /\ \E p \in Texels :
       /\ sdf.cells[p].valid
       /\ sdf.cells[p].seed[1] - p[1] \in {0 - 3, 0 - 2, 2, 3}

Exact(p) == sdf.cells[p].valid /\ sdf.cells[p].dist = TrueDistance(p)

Adjacent(p, q) ==
  (p[1] - q[1]) * (p[1] - q[1]) + (p[2] - q[2]) * (p[2] - q[2]) = 1

\* the seeds reached from those of S through edge-adjacent seeds
RECURSIVE Grown(_)
Grown(S) ==
  LET T == S \cup { q \in Seeds : \E p \in S : Adjacent(p, q) }
  IN IF T = S THEN S ELSE Grown(T)

\* the seeds form one cluster: each is reached from any one of them
OneCluster == Seeds # {} /\ Grown({ CHOOSE p \in Seeds : TRUE }) = Seeds

\* C20 as stated: with one isolated seed cluster and the full schedule
\* every pixel is valid and holds its true nearest-seed distance.
C20_OneClusterExact ==
  (sdf # Unbuilt /\ sdf.steps = Schedule /\ OneCluster) =>
    \A p \in Texels : Exact(p)

\* after the full schedule, with exactly one seed pixel every pixel is
\* valid and holds its true distance to it; with any seeds at all every
\* pixel is valid and holds a distance no smaller than its true
\* nearest-seed distance
SingleSeedExact ==
  (sdf # Unbuilt /\ sdf.steps = Schedule /\ Seeds # {}) =>
    /\ \A p \in Texels :
         /\ sdf.cells[p].valid
         /\ ~(sdf.cells[p].dist[2] < TrueDistance(p)[2])
    /\ Cardinality(Seeds) = 1 => \A p \in Texels : Exact(p)

\* C29: in a jump pass no pixel's recorded distance increases, no valid
\* pixel becomes invalid, a seed pixel keeps distance 0 and itself as seed,
\* and a cell changes only when a sampled valid neighbour's seed is strictly
\* closer to the pixel's own coordinate than the pixel's current best.
C29_JumpPassMonotone ==
  [][ (sdf # Unbuilt /\ sdf' # sdf) =>
        \A p \in Texels :
          LET was == sdf.cells[p]
              now == sdf'.cells[p]
              stepSize == sdf'.steps[Len(sdf'.steps)]
          IN /\ IF was.valid THEN now.valid /\ now.dist[2] <= was.dist[2]
                ELSE now.valid \/ now.dist = was.dist
             /\ (was.valid /\ was.seed = p) => now = was
             /\ now # was =>
                  \E dx \in {0 - 1, 0, 1}, dy \in {0 - 1, 0, 1} :
                    LET n == <<p[1] + dx * stepSize, p[2] + dy * stepSize>>
                    IN /\ n \in Texels
                       /\ sdf.cells[n].valid
                       /\ now.seed = sdf.cells[n].seed
                       /\ was.valid =>
                            Distance(p, sdf.cells[n].seed)[2] < was.dist[2]
    ]_sdfVars

\* after the passes with steps 2 and 1 a pixel that took the seed two
\* texels to its right in the first pass holds the nearer seed next to it
C29_Witness ==
  /\ sdf # Unbuilt
  /\ sdf.steps = <<2, 1>>
  /\ \E p \in Texels :
       /\ p \notin Seeds
       /\ <<p[1] + 2, p[2]>> \in Seeds
       /\ <<p[1] + 1, p[2]>> \in Seeds
       /\ sdf.cells[p].seed = <<p[1] + 1, p[2]>>

(***************************************************************************)
(* The fill pass: EffectRenderer.applyFluidFill sets the uniforms of the   *)
(* radial-fill program and draws a quad; RADIAL_FILL_FRAGMENT main runs    *)
(* once per fragment.  Coordinates, progress, threshold and colour         *)
(* channels are integer multiples of 1/Unit, so 1.0 is Unit.  A normalised *)
(* distance is kept symbolically: <<"lin", v>> is v, <<"rad", q>> is       *)
(* sqrt(q) / sqrt(2) and <<"inv", q>> is 1 - sqrt(q) / sqrt(2), q a        *)
(* squared length; comparisons are exact.                                  *)
(***************************************************************************)
exceptFill ==
  <<vars, layerVars, effectVars, compVars, easingVars, sdfVars,
    timelineVars, textureVars>>

Unit == 20

Lin(v) == <<"lin", v>>

\* x < edge for a normalised distance x and a plain number edge
Less(x, edge) ==
  CASE x[1] = "lin" -> x[2] < edge
    [] x[1] = "rad" -> edge > 0 /\ x[2] < 2 * edge * edge
    [] x[1] = "inv" ->
         Unit - edge < 0 \/ x[2] > 2 * (Unit - edge) * (Unit - edge)

\* GLSL step(edge, x): 0.0 if x < edge, else 1.0
Step_edgeExclusive(edge, x) ==
  IF Less(x, edge) \/ x = Lin(edge) THEN 0 ELSE Unit

Step(edge, x) == IF Less(x, edge) THEN 0 ELSE Unit

\* GLSL mix(x, y, a) = x * (1 - a) + y * a
Mix(x, y, a) == (x * (Unit - a) + y * a) \div Unit

Directions == { "center-out", "edge-in", "left-right", "top-bottom", "custom" }

\* directionMap[direction] ?? 0
directionMap(direction) ==
  CASE direction = "center-out" -> 0
    [] direction = "edge-in" -> 1
    [] direction = "left-right" -> 2
    [] direction = "top-bottom" -> 3
    [] OTHER -> 0

\* dot(toPoint, toPoint) for toPoint = v_texCoord - u_anchorPoint
Length2(texCoord, anchorPoint) ==
  (texCoord[1] - anchorPoint[1]) * (texCoord[1] - anchorPoint[1])
  + (texCoord[2] - anchorPoint[2]) * (texCoord[2] - anchorPoint[2])

\* normalizedDist of main()
NormalizedDist_unflipped(u_direction, texCoord, anchorPoint) ==
  CASE u_direction = 0 -> <<"rad", Length2(texCoord, anchorPoint)>>
    [] u_direction = 1 -> <<"inv", Length2(texCoord, anchorPoint)>>
    [] u_direction = 2 -> Lin(texCoord[1])
    [] u_direction = 3 -> Lin(texCoord[2])
    [] OTHER -> Lin(0)

NormalizedDist(u_direction, texCoord, anchorPoint) ==
  CASE u_direction = 0 -> <<"rad", Length2(texCoord, anchorPoint)>>
    [] u_direction = 1 -> <<"inv", Length2(texCoord, anchorPoint)>>
    [] u_direction = 2 -> Lin(texCoord[1])
    [] u_direction = 3 -> Lin(Unit - texCoord[2])
    [] OTHER -> Lin(0)

\* float alphaMask = step(u_threshold, texColor.a)
AlphaMask_strict(u_threshold, a) == IF a > u_threshold THEN Unit ELSE 0

AlphaMask(u_threshold, a) == Step(u_threshold, Lin(a))

\* outputColor.a = texColor.a
PreserveAlpha_skipped(outputColor, texColor) == outputColor

PreserveAlpha(outputColor, texColor) == [outputColor EXCEPT !.a = texColor.a]

\* RADIAL_FILL_FRAGMENT main() for one fragment
main(u, texCoord, texColor) ==
  LET normalizedDist == NormalizedDist(u.direction, texCoord, u.anchorPoint)
      fillAmount == Unit - Step(u.progress, normalizedDist)
      alphaMask == AlphaMask(u.threshold, texColor.a)
      finalFill == (fillAmount * alphaMask) \div Unit
      outputColor == [rgb |-> Mix(texColor.rgb, u.fillColor.rgb, finalFill),
                      a |-> Mix(texColor.a, u.fillColor.a, finalFill)]
  IN PreserveAlpha(outputColor, texColor)

Progresses == { 0, 5, 6, Unit }
AnchorPoints == { <<0, 0>>, <<10, 10>>, <<Unit, Unit>> }
FillThresholds == { 0, 2, Unit }
TexAlphas == { 0, 2, Unit }
FillAlphas == { 0, Unit }
\* 0 and Unit are the edges of the quad, 1, 5 and 7 centres of the
\* texels of a 10-texel row
TexCoords == { 0, 1, 5, 7, Unit } \X { 0, 1, 5, 7, Unit }

\* the uniforms applyFluidFill sets from the effect
Uniforms ==
  { [progress |-> p, anchorPoint |-> c, threshold |-> t,
     direction |-> directionMap(d), fillColor |-> [rgb |-> 15, a |-> fa]] :
      p \in Progresses, c \in AnchorPoints, t \in FillThresholds,
      d \in Directions, fa \in FillAlphas }

InitFill ==
  /\ \E u \in Uniforms, c \in TexCoords, a \in TexAlphas :
       fill = [u |-> u, texCoord |-> c, texColor |-> [rgb |-> 5, a |-> a]]
  /\ fragColor = Unbuilt
  /\ TrackUnbuilt /\ LayerUnbuilt /\ EffectUnbuilt
  /\ CompositionUnbuilt /\ EasingUnbuilt /\ SdfUnbuilt
  /\ TimelineUnbuilt
  /\ TexturesUnbuilt

\* gl.drawArrays: the fragment shader writes the fragment's colour
drawFill ==
  /\ fragColor = Unbuilt
  /\ fragColor' = main(fill.u, fill.texCoord, fill.texColor)
  /\ UNCHANGED fill
  /\ UNCHANGED exceptFill

NextFill == drawFill

SpecFill == InitFill /\ [][NextFill]_fillVars

\* ---- properties of the fill pass
Drawn == fragColor # Unbuilt

\* the fragment's colour was replaced by the fill colour
Filled == fragColor.rgb = fill.u.fillColor.rgb

\* C21: the output pixel's alpha equals the source pixel's alpha, for every
\* progress, direction, anchor, threshold and fill colour (fill alpha
\* included).
C21_AlphaPreserved == Drawn => fragColor.a = fill.texColor.a

\* a filled fragment whose source alpha differs from the fill colour's
C21_Witness ==
  /\ Drawn
  /\ Filled
  /\ fill.texColor.a # fill.u.fillColor.a

\* C22: with progress 0 the output equals the source, in every direction
\* mode, for every anchor and threshold, also where the normalised distance
\* is exactly 0.
C22_ProgressZeroUnchanged ==
  (Drawn /\ fill.u.progress = 0) => fragColor = fill.texColor

\* progress 0 at the anchor itself, with an alpha the threshold admits
C22_Witness ==
  /\ Drawn
  /\ fill.u.progress = 0
  /\ fill.u.direction = 0
  /\ fill.texCoord = fill.u.anchorPoint
  /\ fill.texColor.a >= fill.u.threshold

C24_InclusiveThreshold ==
  (Drawn /\ fill.u.direction \in {2, 3}) =>
    (Filled <=>
       /\ fill.texColor.a >= fill.u.threshold
       /\ IF fill.u.direction = 2
          THEN fill.texCoord[1] <= fill.u.progress
          ELSE Unit - fill.texCoord[2] <= fill.u.progress)

\* C24: a pixel is filled exactly when its normalised distance is strictly
\* less than progress and its alpha is >= threshold; a pixel whose
\* normalised distance equals progress is not filled.
C24_StrictThreshold ==
  Drawn =>
    (Filled <=>
       /\ fill.texColor.a >= fill.u.threshold
       /\ CASE fill.u.direction = 0 ->
                 Length2(fill.texCoord, fill.u.anchorPoint)
                   < 2 * fill.u.progress * fill.u.progress
            [] fill.u.direction = 1 ->
                 Length2(fill.texCoord, fill.u.anchorPoint)
                   > 2 * (Unit - fill.u.progress) * (Unit - fill.u.progress)
            [] fill.u.direction = 2 -> fill.texCoord[1] < fill.u.progress
            [] fill.u.direction = 3 ->
                 Unit - fill.texCoord[2] < fill.u.progress)

\* left-right with progress 0.3: the texel centre at 0.25 is filled
C24_Witness ==
  /\ Drawn
  /\ fill.u.direction = 2
  /\ fill.u.progress = 6
  /\ fill.texCoord[1] = 5
  /\ Filled

(***************************************************************************)
(* Composition playback (play, pause, seek, tick, dispose) and             *)
(* WebGL2Renderer.render.  JavaScript runs each call and each              *)
(* animation-frame callback to completion, so each is one action; no event *)
(* handler is registered.  performance.now() enters as the time elapsed    *)
(* since lastFrameTime was last set.  An animation-frame id is reused once *)
(* neither the browser nor animationFrameId holds it.                      *)
(***************************************************************************)
exceptTimeline ==
  <<vars, layerVars, effectVars, compVars, easingVars, sdfVars, fillVars,
    textureVars>>

TimelineDurations == { 2, 3 }

\* times handed to seek and render: negative, inside, at and beyond duration
SeekTimes == { 0 - 1, 0, 1, 3, 5 }

\* seconds between two readings of performance.now()
Elapsed == { 0, 1, 4 }

FrameIds == 1..3

Null == 0

\* a layer whose opacity track is empty, or animated from 0 at time 0
LayerKinds == { "constant", "fade" }

OpacityTrack(kind) ==
  IF kind = "constant" THEN Track(1, Some(0), Some(1))
  ELSE [Track(1, Some(0), Some(1)) EXCEPT
          !.keyframes = PushAll(<<>>, << Keyframe(0, <<0, "linear">>),
                                         Keyframe(2, <<3, "none">>) >>)]

\* layer.getOpacity()
LayerOpacity(l) == TrackValueAt("opacity", OpacityTrack(l.kind), l.currentTime)

TimelineLayer(kind) == [kind |-> kind, currentTime |-> 0]

Called(op, emitted, reads) == [op |-> op, emitted |-> emitted, reads |-> reads]

After(c, p, e) == [comp |-> c, pending |-> p, emitted |-> e]

\* requestAnimationFrame(this.tick)
Request(c, p) ==
  LET id == CHOOSE i \in FrameIds :
              /\ i \notin p \cup {c.animationFrameId}
              /\ \A j \in FrameIds :
                   j \notin p \cup {c.animationFrameId} => i <= j
  IN After([c EXCEPT !.animationFrameId = id], p \cup {id}, <<>>)

\* Composition.pause
Pause_keepsFrame(c, p) ==
  IF ~c.playing THEN After(c, p, <<>>)
  ELSE After([c EXCEPT !.playing = FALSE, !.animationFrameId = Null],
                p, <<"pause">>)

Pause(c, p) ==
  IF ~c.playing THEN After(c, p, <<>>)
  ELSE After([c EXCEPT !.playing = FALSE, !.animationFrameId = Null],
                IF c.animationFrameId # Null THEN p \ {c.animationFrameId}
                ELSE p,
                <<"pause">>)

\* Composition.tick, deltaTime seconds after lastFrameTime
Tick(c, p, deltaTime) ==
  IF ~c.playing THEN After(c, p, <<>>)
  ELSE IF c.currentTime + deltaTime >= c.duration
  THEN IF c.loop THEN Request([c EXCEPT !.currentTime = 0], p)
       ELSE LET paused == Pause([c EXCEPT !.currentTime = c.duration], p)
            IN After(paused.comp, paused.pending,
                        paused.emitted \o <<"complete">>)
  ELSE Request([c EXCEPT !.currentTime = c.currentTime + deltaTime], p)

\* Math.max(0, Math.min(time, this.duration))
Seek_unclamped(c, time) == [c EXCEPT !.currentTime = time]

Seek(c, time) ==
  LET least == IF time < c.duration THEN time ELSE c.duration
  IN [c EXCEPT !.currentTime = IF least > 0 THEN least ELSE 0]

InitTimeline ==
  /\ \E d \in TimelineDurations, loop \in BOOLEAN,
        kinds \in [1..2 -> LayerKinds] :
       timeline = [duration |-> d, currentTime |-> 0, playing |-> FALSE,
                   loop |-> loop, animationFrameId |-> Null,
                   layers |-> [i \in 1..2 |-> TimelineLayer(kinds[i])]]
  /\ pending = {}
  /\ last = Called("new", <<>>, <<>>)
  /\ TrackUnbuilt /\ LayerUnbuilt /\ EffectUnbuilt
  /\ CompositionUnbuilt /\ EasingUnbuilt /\ SdfUnbuilt
  /\ FillUnbuilt /\ TexturesUnbuilt

\* Composition.play: the first tick runs inside the call
play ==
  LET ticked == Tick([timeline EXCEPT !.playing = TRUE], pending, 0)
      after == IF timeline.playing THEN After(timeline, pending, <<>>)
               ELSE After(ticked.comp, ticked.pending,
                          <<"play">> \o ticked.emitted)
  IN /\ timeline' = after.comp
     /\ pending' = after.pending
     /\ last' = Called("play", after.emitted, <<>>)
     /\ UNCHANGED exceptTimeline

pause ==
  /\ timeline' = Pause(timeline, pending).comp
  /\ pending' = Pause(timeline, pending).pending
  /\ last' = Called("pause", Pause(timeline, pending).emitted, <<>>)
  /\ UNCHANGED exceptTimeline

\* Composition.seek
seek(time) ==
  /\ timeline' = Seek(timeline, time)
  /\ last' = Called("seek", <<"seek">>, <<>>)
  /\ UNCHANGED pending
  /\ UNCHANGED exceptTimeline

\* the browser runs the callback it holds under id
animationFrame(id, deltaTime) ==
  /\ id \in pending
  /\ timeline' = Tick(timeline, pending \ {id}, deltaTime).comp
  /\ pending' = Tick(timeline, pending \ {id}, deltaTime).pending
  /\ last' = Called("tick", Tick(timeline, pending \ {id}, deltaTime).emitted,
                    <<>>)
  /\ UNCHANGED exceptTimeline

\* Composition.dispose: pause(), clearLayers(), eventHandlers.clear()
dispose ==
  /\ timeline' = [Pause(timeline, pending).comp EXCEPT !.layers = <<>>]
  /\ pending' = Pause(timeline, pending).pending
  /\ last' = Called("dispose", Pause(timeline, pending).emitted, <<>>)
  /\ UNCHANGED exceptTimeline

Read(i, op, time) == [layer |-> i, op |-> op, time |-> time]

\* what render's loop body and renderLayer / calculateLayerMatrix read of
\* layer i: each getter reads at the layer's own time cursor
LayerReads_opacityFirst(l, i, time) ==
  << Read(i, "getOpacity", l.currentTime), Read(i, "updateTime", time) >>
  \o (IF Leq(LayerOpacity(l), Num(0)) THEN <<>>
      ELSE << Read(i, "getOpacity", time), Read(i, "getPosition", time),
              Read(i, "getScale", time), Read(i, "getRotation", time) >>)

LayerReads(l, i, time) ==
  LET updated == [l EXCEPT !.currentTime = time]
  IN << Read(i, "updateTime", time),
        Read(i, "getOpacity", updated.currentTime) >>
     \o (IF Leq(LayerOpacity(updated), Num(0)) THEN <<>>
         ELSE << Read(i, "getOpacity", updated.currentTime),
                 Read(i, "getPosition", updated.currentTime),
                 Read(i, "getScale", updated.currentTime),
                 Read(i, "getRotation", updated.currentTime) >>)

RECURSIVE AllReads(_, _, _)
AllReads(layers, i, time) ==
  IF i > Len(layers) THEN <<>>
  ELSE LayerReads(layers[i], i, time) \o AllReads(layers, i + 1, time)

\* WebGL2Renderer.render(composition, time)
render(time) ==
  LET sought == Seek(timeline, time)
  IN /\ timeline' =
          [sought EXCEPT !.layers =
             [i \in 1..Len(sought.layers) |->
                [sought.layers[i] EXCEPT !.currentTime = sought.currentTime]]]
     /\ last' = Called("render", <<"seek">>,
                       AllReads(sought.layers, 1, sought.currentTime))
     /\ UNCHANGED pending
     /\ UNCHANGED exceptTimeline

NextTimeline ==
  \/ play
  \/ pause
  \/ \E time \in SeekTimes : seek(time)
  \/ \E id \in FrameIds, deltaTime \in Elapsed : animationFrame(id, deltaTime)
  \/ dispose
  \/ \E time \in SeekTimes : render(time)

SpecTimeline == InitTimeline /\ [][NextTimeline]_timelineVars

\* C25: in one render call each layer's updateTime comes before any read of
\* that layer's properties, and every read of every layer is evaluated at
\* the composition's currentTime after the seek.
C25_NoTornReads ==
  last.op = "render" =>
    \A k \in DOMAIN last.reads :
      /\ last.reads[k].time = timeline.currentTime
      /\ last.reads[k].op # "updateTime" =>
           \E j \in 1..(k - 1) :
             /\ last.reads[j].layer = last.reads[k].layer
             /\ last.reads[j].op = "updateTime"

\* a render at a time beyond the duration that read all four properties of
\* both layers
C25_Witness ==
  /\ last.op = "render"
  /\ Len(last.reads) = 12
  /\ timeline.currentTime = timeline.duration

\* C26: right after seek(t) returns, every layer evaluates its properties
\* at the composition's new currentTime (shown on getOpacity).
C26_SeekReachesLayers ==
  last.op = "seek" =>
    \A i \in DOMAIN timeline.layers :
      LayerOpacity(timeline.layers[i])
        = TrackValueAt("opacity", OpacityTrack(timeline.layers[i].kind),
                       timeline.currentTime)

\* C27: currentTime stays within [0, duration].
C27_CurrentTimeInRange ==
  timeline # Unbuilt =>
    0 <= timeline.currentTime /\ timeline.currentTime <= timeline.duration

\* a tick that ran past the end without loop
C27_Witness ==
  /\ last.op = "tick"
  /\ last.emitted = <<"pause", "complete">>
  /\ timeline.currentTime = timeline.duration

\* C28: at most one tick callback is pending, none while playing is false;
\* play while playing and pause while paused change no state, schedule
\* nothing and emit no event.
C28_OneTickPending ==
  /\ [](/\ Cardinality(pending) <= 1
        /\ (timeline # Unbuilt /\ ~timeline.playing) => pending = {})
  /\ [][ /\ (last'.op = "play" /\ timeline.playing) =>
              (timeline' = timeline /\ pending' = pending
                 /\ last'.emitted = <<>>)
         /\ (last'.op = "pause" /\ ~timeline.playing) =>
              (timeline' = timeline /\ pending' = pending
                 /\ last'.emitted = <<>>) ]_timelineVars

\* play was called while playing, with a callback pending
C28_Witness ==
  /\ last.op = "play"
  /\ last.emitted = <<>>
  /\ timeline.playing
  /\ Cardinality(pending) = 1

(***************************************************************************)
(* TextureManager: createTexture, deleteTexture, clearCache, dispose and   *)
(* getCacheKey.  The cache is the set of its entries, each a key with the  *)
(* ManagedTexture stored under it.  Every Math.random() call returns a     *)
(* value not returned before.                                              *)
(***************************************************************************)
exceptTextures ==
  <<vars, layerVars, effectVars, compVars, easingVars, sdfVars, fillVars,
    timelineVars>>

\* no GL texture is created once MaxTextures exist
MaxTextures == 3

\* no source without a src is keyed once Math.random() was called MaxRandoms
\* times
MaxRandoms == 3

\* two images and two canvases; a canvas has no src attribute
TextureSources ==
  { [id |-> "image1", src |-> "a.png"], [id |-> "image2", src |-> "b.png"],
    [id |-> "canvas1", src |-> ""], [id |-> "canvas2", src |-> ""] }

\* `texture_${source.src || Math.random()}` with n random values drawn
getCacheKey(textureSource, n) ==
  IF textureSource.src # "" THEN <<"texture", textureSource.src>>
  ELSE <<"texture", "random", n + 1>>

\* the Math.random() values drawn after getCacheKey(textureSource, n)
Drawn1(textureSource, n) == IF textureSource.src # "" THEN n ELSE n + 1

\* getCacheKey(textureSource) can be called within the bound
Keyable(textureSource) ==
  textureSource.src # "" \/ made.randoms < MaxRandoms

Cached(key) == { e \in textureCache : e.key = key }

Entry(key, managed) == [key |-> key, managed |-> managed]

InitTextures ==
  /\ textureCache = {}
  /\ texturePool = <<>>
  /\ made = [textures |-> 0, randoms |-> 0]
  /\ returned = [op |-> "new", source |-> Undefined, managed |-> Undefined]
  /\ TrackUnbuilt /\ LayerUnbuilt /\ EffectUnbuilt
  /\ CompositionUnbuilt /\ EasingUnbuilt /\ SdfUnbuilt
  /\ FillUnbuilt /\ TimelineUnbuilt

\* TextureManager.createTexture(source)
createTexture(textureSource) ==
  LET cacheKey == getCacheKey(textureSource, made.randoms)
      randoms == Drawn1(textureSource, made.randoms)
      pooled == Len(texturePool) > 0
      texture == IF pooled THEN texturePool[Len(texturePool)]
                 ELSE made.textures + 1
      managedTexture == [texture |-> texture, source |-> textureSource]
  IN IF Cached(cacheKey) # {}
     THEN /\ Keyable(textureSource)
          /\ returned' = [op |-> "createTexture", source |-> textureSource,
                          managed |-> (CHOOSE e \in Cached(cacheKey) : TRUE).managed]
          /\ made' = [made EXCEPT !.randoms = randoms]
          /\ UNCHANGED <<textureCache, texturePool>>
          /\ UNCHANGED exceptTextures
     ELSE /\ Keyable(textureSource)
          /\ pooled \/ made.textures < MaxTextures
          /\ texturePool' = IF pooled
                            THEN SubSeq(texturePool, 1, Len(texturePool) - 1)
                            ELSE texturePool
          /\ made' = [textures |-> IF pooled THEN made.textures
                                   ELSE made.textures + 1,
                      randoms |-> randoms]
          /\ textureCache' = textureCache \cup {Entry(cacheKey, managedTexture)}
          /\ returned' = [op |-> "createTexture", source |-> textureSource,
                          managed |-> managedTexture]
          /\ UNCHANGED exceptTextures

\* TextureManager.deleteTexture(managedTexture), managedTexture one the
\* cache holds
deleteTexture(managedTexture) ==
  /\ \E e \in textureCache : e.managed = managedTexture
  /\ Keyable(managedTexture.source)
  /\ Len(texturePool) < MaxTextures
  /\ textureCache' =
       textureCache \ Cached(getCacheKey(managedTexture.source, made.randoms))
  /\ texturePool' = Append(texturePool, managedTexture.texture)
  /\ made' = [made EXCEPT !.randoms = Drawn1(managedTexture.source, @)]
  /\ returned' = [op |-> "deleteTexture", source |-> managedTexture.source,
                  managed |-> Undefined]
  /\ UNCHANGED exceptTextures

\* TextureManager.clearCache()
clearCache ==
  /\ textureCache' = {}
  /\ returned' = [op |-> "clearCache", source |-> Undefined,
                  managed |-> Undefined]
  /\ UNCHANGED <<texturePool, made>>
  /\ UNCHANGED exceptTextures

\* TextureManager.dispose()
disposeTextures ==
  /\ textureCache' = {}
  /\ texturePool' = <<>>
  /\ returned' = [op |-> "dispose", source |-> Undefined,
                  managed |-> Undefined]
  /\ UNCHANGED made
  /\ UNCHANGED exceptTextures

NextTextures ==
  \/ \E textureSource \in TextureSources : createTexture(textureSource)
  \/ \E e \in textureCache : deleteTexture(e.managed)
  \/ clearCache
  \/ disposeTextures

SpecTextures == InitTextures /\ [][NextTextures]_textureVars

\* C30: a createTexture call that directly follows a createTexture call
\* with the same source returns the same ManagedTexture and creates no GL
\* texture, for image and canvas sources alike.
C30_RepeatedCreateIsCached ==
  [][ (returned.op = "createTexture" /\ returned'.op = "createTexture"
         /\ returned'.source = returned.source)
      => (returned'.managed = returned.managed
            /\ made'.textures = made.textures
            /\ textureCache' = textureCache) ]_textureVars
====
